---- MODULE Spec2Model ----
(***************************************************************************)
(* Model of model-mammo. The DMN decision-table evaluator                  *)
(* (src/src/dmn-runner.js): the S-FEEL unary-test compiler                 *)
(* (getText, parseUnaryTest, parseOutputExpression), the table loader      *)
(* (loadDMN, with its module-level cache parsedDecision) and the           *)
(* first-match evaluator (evaluateDecision). The --all branch of           *)
(* test-teardown.js, the main loop of test-runner.js and the state of the  *)
(* React App, each request and each response a step of its own.            *)
(*                                                                         *)
(* JavaScript strings are sequences of one-character strings; JavaScript   *)
(* values are records tagged by their typeof in field k.                   *)
(***************************************************************************)
EXTENDS Integers, Sequences, FiniteSets, TLC

VARIABLES
  dmnFile,         \* the parsed XML of mammo.dmn: doc.definitions.decision.decisionTable
  parsedDecision,  \* dmn-runner.js:9   let parsedDecision = null
  call,            \* the exported function called last: "none", "loadDMN", "evaluateDecision"
  callInputs,      \* the argument of the last evaluateDecision call
  callOutcome,     \* how that call ended: "none", "returned", "threw"
  callResult,      \* what that call returned
  textValue,       \* the argument of a parseUnaryTest call
  test,            \* what that call produced: a predicate, or the thrown Error
  input,           \* the runtime value the predicate was last applied to
  verdict,         \* the boolean the predicate returned for input
  outputValue,     \* what parseOutputExpression returned for textValue
  calls,           \* history: how many exported calls were made
  compiles,        \* history: how often loadDMN read the file and compiled its cells
  firstTable,      \* history: the table first assigned to parsedDecision
  firstInputs,     \* history: the argument of the first evaluateDecision call that returned
  firstResult,     \* history: what that call returned
  between,         \* history: a later evaluateDecision call had other inputs
  server,          \* test-teardown.js: the tagged resources the FHIR server holds
  pass,            \* test-teardown.js: position of the --all loop in resourceTypes
  teardownPc,      \* test-teardown.js: where the script stands
  entries,         \* deleteByTag: the entries of the bundle not yet looped over
  deleted,         \* deleteByTag: let deleted = 0
  totalDeleted,    \* test-teardown.js: let totalDeleted = 0
  requests,        \* history: the requests sent, each with the passes returned before it
  patients,          \* App: useState([]), the ids of the patients listed
  patientsPending,   \* App: the fetchPatients call of the mount effect has not ended
  selectedPatientId, \* App: useState(''), 0 standing for the empty string
  selectedPatient,   \* App: useState(null)
  cdsResult,         \* App: useState(null)
  loading,           \* App: useState(false)
  error,             \* App: useState(null)
  evaluations,       \* App: the evaluateCds calls that have not ended, oldest first
  args,              \* test-runner.js: process.argv.slice(2)
  generated,         \* test-runner.js: tests/generated, its case directories
                     \* holding a _metadata.json
  runnerPc,          \* test-runner.js: where the script stands
  casesToRun,        \* test-runner.js: let casesToRun = []
  caseIndex,         \* test-runner.js: position of the main loop in casesToRun
  expected,          \* runTestCase: metadata.expected of the case awaiting $evaluate
  passed,            \* test-runner.js: let passed = 0
  failed,            \* test-runner.js: let failed = 0
  exitCode,          \* test-runner.js: the code the process exited with
  outcomes           \* history: how the run of each case ended, in loop order

tableVars == <<dmnFile, parsedDecision, call, callInputs, callOutcome, callResult>>
cellVars  == <<textValue, test, input, verdict, outputValue>>
histVars  == <<calls, compiles, firstTable, firstInputs, firstResult, between>>
teardownVars == <<server, pass, teardownPc, entries, deleted, totalDeleted, requests>>
appVars      == <<patients, patientsPending, selectedPatientId, selectedPatient,
                 cdsResult, loading, error, evaluations>>
runnerVars   == <<args, generated, runnerPc, casesToRun, caseIndex, expected,
                 passed, failed, exitCode, outcomes>>
scriptVars   == <<teardownVars, appVars, runnerVars>>
dmnVars      == <<tableVars, cellVars, histVars>>
vars      == <<dmnFile, parsedDecision, call, callInputs, callOutcome, callResult,
               textValue, test, input, verdict, outputValue,
               calls, compiles, firstTable, firstInputs, firstResult, between,
               server, pass, teardownPc, entries, deleted, totalDeleted, requests,
               patients, patientsPending, selectedPatientId, selectedPatient,
               cdsResult, loading, error, evaluations,
               args, generated, runnerPc, casesToRun, caseIndex, expected,
               passed, failed, exitCode, outcomes>>

-----------------------------------------------------------------------------
(* Bounds of the model                                                     *)

\* longest raw cell text enumerated exhaustively over Alphabet
MaxLen == 3
\* largest integer written in a generated range or comparison cell, and the
\* largest magnitude of an integer runtime value
MaxNum == 3
\* most rules in a generated decision table
MaxRules == 2
\* oldest patient evaluated against the reference table
MaxAge == 80
\* most exported calls in a behaviour that keeps the call history
MaxCalls == 3
\* most tagged resources of one type on the FHIR server
MaxPerType == 1
\* most patients the App lists
MaxPatients == 2
\* most evaluateCds calls of the App in flight at once
MaxInFlight == 2
\* most test cases in tests/generated
MaxCases == 3

-----------------------------------------------------------------------------
(* JavaScript values                                                       *)

Undefined == [k |-> "undefined"]
Null      == [k |-> "null"]
Str(s)    == [k |-> "string", s |-> s]
Num(n)    == [k |-> "number", n |-> n]
Bool(b)   == [k |-> "boolean", b |-> b]
\* an object carrying a '#text' property (an element with attributes)
TextObj(s) == [k |-> "object", text |-> s]
\* the result of ToNumber on a value that is not a number
NaN       == [k |-> "NaN"]

\* JavaScript ===
StrictEquals(a, b) == a = b

-----------------------------------------------------------------------------
(* JavaScript strings                                                      *)

Digits == {"0", "1", "2", "3", "4", "5", "6", "7", "8", "9"}

DigitVal(c) ==
  CASE c = "0" -> 0 [] c = "1" -> 1 [] c = "2" -> 2 [] c = "3" -> 3
    [] c = "4" -> 4 [] c = "5" -> 5 [] c = "6" -> 6 [] c = "7" -> 7
    [] c = "8" -> 8 [] c = "9" -> 9

DigitChar(d) ==
  CASE d = 0 -> "0" [] d = 1 -> "1" [] d = 2 -> "2" [] d = 3 -> "3"
    [] d = 4 -> "4" [] d = 5 -> "5" [] d = 6 -> "6" [] d = 7 -> "7"
    [] d = 8 -> "8" [] d = 9 -> "9"

\* the white space String.prototype.trim strips (the only one in Alphabet)
IsWhiteSpace(c) == c = " "

RECURSIVE TrimStart(_)
TrimStart(s) ==
  IF s # <<>> /\ IsWhiteSpace(Head(s)) THEN TrimStart(Tail(s)) ELSE s

RECURSIVE TrimEnd(_)
TrimEnd(s) ==
  IF s # <<>> /\ IsWhiteSpace(s[Len(s)])
    THEN TrimEnd(SubSeq(s, 1, Len(s) - 1))
    ELSE s

\* String.prototype.trim
Trim(s) == TrimEnd(TrimStart(s))

\* text.startsWith('"') and text.endsWith('"')
StartsWith(s, c) == s # <<>> /\ s[1] = c
EndsWith(s, c)   == s # <<>> /\ s[Len(s)] = c

\* text.slice(1, -1)
Slice1(s) == SubSeq(s, 2, Len(s) - 1)

\* /^\d+$/.test(s)
IsDigits(s) == s # <<>> /\ \A i \in 1..Len(s) : s[i] \in Digits

\* parseInt(s, 10) on a string of decimal digits
RECURSIVE ParseInt(_)
ParseInt(s) ==
  IF s = <<>> THEN 0
  ELSE 10 * ParseInt(SubSeq(s, 1, Len(s) - 1)) + DigitVal(s[Len(s)])

\* String(n) for an integer n
RECURSIVE NatToString(_)
NatToString(n) ==
  IF n < 10 THEN <<DigitChar(n)>>
  ELSE NatToString(n \div 10) \o <<DigitChar(n % 10)>>

NumToString(n) == IF n < 0 THEN <<"-">> \o NatToString(-n) ELSE NatToString(n)

T_true  == <<"t", "r", "u", "e">>
T_false == <<"f", "a", "l", "s", "e">>

\* ToNumber on a string: white space is trimmed, the empty string is 0, an
\* optionally signed run of decimal digits is that integer, anything else
\* (of the strings this model feeds in) is NaN
StringToNumber(s) ==
  LET t == Trim(s) IN
    IF t = <<>> THEN Num(0)
    ELSE IF IsDigits(t) THEN Num(ParseInt(t))
    ELSE IF Head(t) = "-" /\ IsDigits(Tail(t)) THEN Num(-ParseInt(Tail(t)))
    ELSE NaN

\* ToNumber, as the relational operators apply it to the non-number operand
\* faulty variant: undefined converts to 0 as null does
ToNumberAbsentZero(v) ==
  CASE v.k = "number"    -> v
    [] v.k = "boolean"   -> IF v.b THEN Num(1) ELSE Num(0)
    [] v.k = "string"    -> StringToNumber(v.s)
    [] v.k = "null"      -> Num(0)
    [] v.k = "undefined" -> Num(0)
    [] OTHER             -> NaN

ToNumber(v) ==
  CASE v.k = "number"    -> v
    [] v.k = "boolean"   -> IF v.b THEN Num(1) ELSE Num(0)
    [] v.k = "string"    -> StringToNumber(v.s)
    [] v.k = "null"      -> Num(0)
    [] OTHER             -> NaN

\* input < num, input > num, input <= num, input >= num with num a number:
\* false whenever the input converts to NaN
LessThan(v, num) ==
  LET x == ToNumber(v) IN x.k = "number" /\ x.n < num
GreaterThan(v, num) ==
  LET x == ToNumber(v) IN x.k = "number" /\ x.n > num
LessEq(v, num) ==
  LET x == ToNumber(v) IN x.k = "number" /\ x.n <= num
GreaterEq(v, num) ==
  LET x == ToNumber(v) IN x.k = "number" /\ x.n >= num

-----------------------------------------------------------------------------
(* Compiled predicates: the closures parseUnaryTest returns                *)

AnyTest              == [op |-> "any"]                       \* () => true
StringTest(value)    == [op |-> "string", value |-> value]   \* input === value
BooleanTest(b)       == [op |-> "boolean", value |-> b]      \* input === true / false
RangeTest(min, max)  == [op |-> "range", min |-> min, max |-> max]
CompTest(op, num)    == [op |-> op, num |-> num]             \* op is "<", ">", "<=", ">="
NumberTest(num)      == [op |-> "number", num |-> num]       \* input === num
\* throw new Error(`Unsupported FEEL expression: ${text}`)
Unsupported(text)    == [op |-> "throw", text |-> text]

IsPredicate(t) == t.op \notin {"throw", "none"}

\* faulty variant: both ends of the range exclusive
RangeAcceptsExclusive(min, max, v) == GreaterThan(v, min) /\ LessThan(v, max)

\* (input) => input >= min && input <= max
RangeAccepts(min, max, v) == GreaterEq(v, min) /\ LessEq(v, max)

\* faulty variant: the strict operators compare non-strictly
CompAcceptsNonStrict(op, num, v) ==
  CASE op \in {"<", "<="} -> LessEq(v, num)
    [] op \in {">", ">="} -> GreaterEq(v, num)

\* the four closures of the switch over the comparison operator
CompAccepts(op, num, v) ==
  CASE op = "<"  -> LessThan(v, num)
    [] op = ">"  -> GreaterThan(v, num)
    [] op = "<=" -> LessEq(v, num)
    [] op = ">=" -> GreaterEq(v, num)

\* faulty variant: input == value, the loose equality
LiteralAcceptsLoose(value, v) ==
  IF v.k = value.k THEN v = value
  ELSE IF v.k \in {"null", "undefined"} \/ value.k \in {"null", "undefined"}
    THEN v.k \in {"null", "undefined"} /\ value.k \in {"null", "undefined"}
  ELSE ToNumber(v).k = "number" /\ ToNumber(v) = ToNumber(value)

\* faulty variant: a boolean literal tests the truthiness of the input
LiteralAcceptsTruthy(value, v) ==
  IF value.k = "boolean"
    THEN value.b = (v \notin {Undefined, Null, Bool(FALSE), Num(0), Str(<<>>)})
    ELSE v = value

\* (input) => input === value, for the string, boolean and number literals
LiteralAccepts(value, v) == StrictEquals(v, value)

\* faulty variant: the wildcard rejects an absent value
AnyAcceptsDefined(v) == v # Undefined

\* () => true
AnyAccepts(v) == TRUE

\* condition.test(inputValue): the body of the closure, applied to a value
Accepts(t, v) ==
  CASE t.op = "any"     -> AnyAccepts(v)
    [] t.op = "string"  -> LiteralAccepts(Str(t.value), v)
    [] t.op = "boolean" -> LiteralAccepts(Bool(t.value), v)
    [] t.op = "range"   -> RangeAccepts(t.min, t.max, v)
    [] t.op = "number"  -> LiteralAccepts(Num(t.num), v)
    [] OTHER            -> CompAccepts(t.op, t.num, v)

-----------------------------------------------------------------------------
(* The expression compiler                                                 *)

\* getText(value): null and undefined give '', a string itself, an object
\* with '#text' that property, anything else String(value)
getText(value) ==
  CASE value.k \in {"null", "undefined"} -> <<>>
    [] value.k = "string"  -> value.s
    [] value.k = "object"  -> value.text
    [] value.k = "number"  -> NumToString(value.n)
    [] value.k = "boolean" -> IF value.b THEN T_true ELSE T_false

\* !text || text === '-' || text.trim() === ''
IsMatchAny(text) == text = <<>> \/ text = <<"-">> \/ Trim(text) = <<>>

\* text.startsWith('"') && text.endsWith('"')
IsStringLiteral(text) == StartsWith(text, "\"") /\ EndsWith(text, "\"")

\* text.match(/^\[(\d+)\.\.(\d+)\]$/): the positions of the first '.' of
\* the '..' that separates two non-empty digit runs (at most one exists)
RangeSplits(text) ==
  { i \in 3..(Len(text) - 3) :
      /\ text[1] = "["
      /\ text[Len(text)] = "]"
      /\ IsDigits(SubSeq(text, 2, i - 1))
      /\ text[i] = "."
      /\ text[i + 1] = "."
      /\ IsDigits(SubSeq(text, i + 2, Len(text) - 1)) }

RangeMatch(text) == RangeSplits(text) # {}
RangeMin(text) ==
  LET i == CHOOSE j \in RangeSplits(text) : TRUE IN ParseInt(SubSeq(text, 2, i - 1))
RangeMax(text) ==
  LET i == CHOOSE j \in RangeSplits(text) : TRUE
  IN ParseInt(SubSeq(text, i + 2, Len(text) - 1))

\* text.match(/^([<>]=?)(\d+)$/): the length of group 1, '=?' being greedy
CompOpLen(text) == IF Len(text) >= 2 /\ text[2] = "=" THEN 2 ELSE 1

CompMatch(text) ==
  /\ text # <<>>
  /\ text[1] \in {"<", ">"}
  /\ IsDigits(SubSeq(text, CompOpLen(text) + 1, Len(text)))

\* faulty variant: group 1 is the first character alone
CompOpFirstChar(text) == text[1]

\* compMatch[1]
CompOp(text) ==
  IF CompOpLen(text) = 2
    THEN (IF text[1] = "<" THEN "<=" ELSE ">=")
    ELSE text[1]
\* parseInt(compMatch[2], 10)
CompNum(text) == ParseInt(SubSeq(text, CompOpLen(text) + 1, Len(text)))

\* parseUnaryTest, from text = text.trim() on
ParseTrimmed(text) ==
  IF IsStringLiteral(text) THEN StringTest(Slice1(text))
  ELSE IF text = T_true THEN BooleanTest(TRUE)
  ELSE IF text = T_false THEN BooleanTest(FALSE)
  ELSE IF RangeMatch(text) THEN RangeTest(RangeMin(text), RangeMax(text))
  ELSE IF CompMatch(text) THEN CompTest(CompOp(text), CompNum(text))
  ELSE IF IsDigits(text) THEN NumberTest(ParseInt(text))
  ELSE Unsupported(text)

\* parseUnaryTest(textValue, inputType); inputType is never read
parseUnaryTest(value, inputType) ==
  LET text == getText(value) IN
    IF IsMatchAny(text) THEN AnyTest ELSE ParseTrimmed(Trim(text))

\* parseOutputExpression(textValue)
\* faulty variant: the text is trimmed before it is tested for emptiness
parseOutputExpressionTrimFirst(value) ==
  LET text == Trim(getText(value)) IN
    IF text = <<>> THEN Null
    ELSE IF text = T_true THEN Bool(TRUE)
    ELSE IF text = T_false THEN Bool(FALSE)
    ELSE IF IsStringLiteral(text) THEN Str(Slice1(text))
    ELSE IF IsDigits(text) THEN Num(ParseInt(text))
    ELSE Str(text)

\* faulty variant: a quoted text is returned with its quotes
parseOutputExpressionQuoted(value) ==
  LET raw == getText(value) IN
    IF raw = <<>> THEN Null
    ELSE LET text == Trim(raw) IN
      IF text = T_true THEN Bool(TRUE)
      ELSE IF text = T_false THEN Bool(FALSE)
      ELSE IF IsDigits(text) THEN Num(ParseInt(text))
      ELSE Str(text)

parseOutputExpression(value) ==
  LET raw == getText(value) IN
    IF raw = <<>> THEN Null
    ELSE LET text == Trim(raw) IN
      IF text = T_true THEN Bool(TRUE)
      ELSE IF text = T_false THEN Bool(FALSE)
      ELSE IF IsStringLiteral(text) THEN Str(Slice1(text))
      ELSE IF IsDigits(text) THEN Num(ParseInt(text))
      ELSE Str(text)

-----------------------------------------------------------------------------
(* The table loader and the evaluator                                      *)

\* Array.isArray(x) ? x : [x] on what the XML parser gives for a repeatable
\* element: no element is undefined (the empty sequence here), one element
\* is the element itself, several are an array
AsArray(x) == IF Len(x) = 0 THEN <<Undefined>> ELSE x

\* inputs.map(inp => ({ name: inp.inputExpression.text, type: ...['@_typeRef'] }))
InputDefs(decisionTable) ==
  LET inputs == AsArray(decisionTable.input) IN
    [i \in 1..Len(inputs) |-> [name |-> inputs[i].name, type |-> inputs[i].typeRef]]

\* { id, name: output['@_name'], type: output['@_typeRef'] }
OutputDef(decisionTable) ==
  [name |-> decisionTable.output.name, type |-> decisionTable.output.typeRef]

\* inputEntries.map((entry, idx) => ({ inputName: inputDefs[idx].name,
\*                                     test: parseUnaryTest(entry.text, inputDefs[idx].type) }))
Conditions(rule, inputDefs) ==
  LET inputEntries == AsArray(rule.inputEntry) IN
    [idx \in 1..Len(inputEntries) |->
       [inputName |-> inputDefs[idx].name,
        test      |-> parseUnaryTest(inputEntries[idx], inputDefs[idx].type)]]

\* rules.map(rule => ({ conditions, outputValue }))
RuleDefs(decisionTable) ==
  LET rules == AsArray(decisionTable.rule) IN
    [r \in 1..Len(rules) |->
       [conditions  |-> Conditions(rules[r], InputDefs(decisionTable)),
        outputValue |-> parseOutputExpression(rules[r].outputEntry)]]

\* a property read of undefined (TypeError): no input element, no rule
\* element, a rule with no inputEntry, or an inputEntry beyond the last
\* input column (inputDefs[idx] is undefined)
TypeErrorIn(decisionTable) ==
  \/ Len(decisionTable.input) = 0
  \/ Len(decisionTable.rule) = 0
  \/ \E r \in 1..Len(decisionTable.rule) :
       \/ Len(decisionTable.rule[r].inputEntry) = 0
       \/ Len(decisionTable.rule[r].inputEntry) > Len(decisionTable.input)

\* some cell makes parseUnaryTest throw
SyntaxErrorIn(decisionTable) ==
  \E r \in 1..Len(decisionTable.rule) :
    \E idx \in 1..Len(decisionTable.rule[r].inputEntry) :
      parseUnaryTest(decisionTable.rule[r].inputEntry[idx], "any").op = "throw"

LoadThrows(decisionTable) ==
  TypeErrorIn(decisionTable) \/ SyntaxErrorIn(decisionTable)

\* the table loadDMN builds: { inputs: inputDefs, output: outputDef, rules: ruleDefs }
Decision(decisionTable) ==
  [inputs |-> InputDefs(decisionTable),
   output |-> OutputDef(decisionTable),
   rules  |-> RuleDefs(decisionTable)]

\* faulty variant: a cell that fails to compile ends the rules, and the
\* rules compiled before it are stored before the error is thrown
loadDMNPartial(cache, decisionTable) ==
  IF cache # Null
    THEN [threw |-> FALSE, cache |-> cache, value |-> cache, compiled |-> FALSE]
  ELSE IF TypeErrorIn(decisionTable)
    THEN [threw |-> TRUE, cache |-> cache, compiled |-> TRUE]
  ELSE IF SyntaxErrorIn(decisionTable)
    THEN LET bad == CHOOSE r \in 1..Len(decisionTable.rule) :
                      /\ SyntaxErrorIn([decisionTable EXCEPT !.rule = SubSeq(@, 1, r)])
                      /\ ~SyntaxErrorIn([decisionTable EXCEPT !.rule = SubSeq(@, 1, r - 1)])
         IN [threw |-> TRUE, compiled |-> TRUE,
             cache |-> [inputs |-> InputDefs(decisionTable),
                        output |-> OutputDef(decisionTable),
                        rules  |-> IF bad = 1 THEN <<>>
                                   ELSE RuleDefs([decisionTable EXCEPT !.rule = SubSeq(@, 1, bad - 1)])]]
  ELSE [threw |-> FALSE, cache |-> Decision(decisionTable),
        value |-> Decision(decisionTable), compiled |-> TRUE]

\* faulty variant: no test of the cache, every call reads and compiles
loadDMNAlways(cache, decisionTable) ==
  IF LoadThrows(decisionTable) THEN [threw |-> TRUE, cache |-> cache, compiled |-> TRUE]
  ELSE [threw |-> FALSE, cache |-> Decision(decisionTable),
        value |-> Decision(decisionTable), compiled |-> TRUE]

\* loadDMN(): threw tells whether it threw, cache is parsedDecision after
\* the call, value is what it returned, compiled whether the call went
\* past the test of the cache (read the file and compiled its cells)
loadDMN(cache, decisionTable) ==
  IF cache # Null
    THEN [threw |-> FALSE, cache |-> cache, value |-> cache, compiled |-> FALSE]
  ELSE IF LoadThrows(decisionTable)
    THEN [threw |-> TRUE, cache |-> cache, compiled |-> TRUE]
  ELSE [threw |-> FALSE, cache |-> Decision(decisionTable),
        value |-> Decision(decisionTable), compiled |-> TRUE]

\* inputs[condition.inputName]: undefined for a missing key
Lookup(inputs, name) == IF name \in DOMAIN inputs THEN inputs[name] ELSE Undefined

\* the inner loop: allMatch after the conditions of one rule
AllMatch(rule, inputs) ==
  \A c \in 1..Len(rule.conditions) :
    Accepts(rule.conditions[c].test, Lookup(inputs, rule.conditions[c].inputName))

\* faulty variant: the fallback returns the empty mapping
NoMatchEmpty(decision) == [n \in {} |-> Null]

\* return { [decision.output.name]: null }
NoMatch(decision) == [n \in {decision.output.name} |-> Null]

\* faulty variant: the last rule whose conditions all match wins
RECURSIVE ScanRulesLast(_, _, _)
ScanRulesLast(decision, inputs, i) ==
  IF i > Len(decision.rules) THEN NoMatch(decision)
  ELSE LET later == ScanRulesLast(decision, inputs, i + 1) IN
    IF later # NoMatch(decision) THEN later
    ELSE IF AllMatch(decision.rules[i], inputs)
      THEN [n \in {decision.output.name} |-> decision.rules[i].outputValue]
      ELSE later

\* the outer loop from rule i on: the first rule whose conditions all match
\* returns { [decision.output.name]: rule.outputValue }
RECURSIVE ScanRules(_, _, _)
ScanRules(decision, inputs, i) ==
  IF i > Len(decision.rules) THEN NoMatch(decision)
  ELSE IF AllMatch(decision.rules[i], inputs)
    THEN [n \in {decision.output.name} |-> decision.rules[i].outputValue]
    ELSE ScanRules(decision, inputs, i + 1)

\* evaluateDecision(inputs) on the table loadDMN returned
evaluateDecision(decision, inputs) == ScanRules(decision, inputs, 1)

\* faulty variant: the loop takes the rules it has tried off the table
DecisionAfterConsuming(decision, inputs) ==
  LET tried == IF \E i \in 1..Len(decision.rules) : AllMatch(decision.rules[i], inputs)
                 THEN CHOOSE i \in 1..Len(decision.rules) :
                        /\ AllMatch(decision.rules[i], inputs)
                        /\ \A j \in 1..(i - 1) : ~AllMatch(decision.rules[j], inputs)
                 ELSE Len(decision.rules)
  IN [decision EXCEPT !.rules = SubSeq(decision.rules, tried + 1, Len(decision.rules))]

\* the table after evaluateDecision: the loops only read decision, its
\* rules, their conditions and output values
DecisionAfter(decision, inputs) == decision

-----------------------------------------------------------------------------
(* Cell texts and runtime values fed to the compiler                       *)

T_female == <<"f", "e", "m", "a", "l", "e">>
T_male   == <<"m", "a", "l", "e">>

Spaces(n)    == [i \in 1..n |-> " "]
Pad(l, t, r) == Spaces(l) \o t \o Spaces(r)
Quote(t)     == <<"\"">> \o t \o <<"\"">>

\* the text of the range cell [a..b] and of the comparison cell op n
RangeText(a, b) == <<"[">> \o NatToString(a) \o <<".", ".">> \o NatToString(b) \o <<"]">>
OpText(op) ==
  CASE op = "<" -> <<"<">> [] op = ">" -> <<">">>
    [] op = "<=" -> <<"<", "=">> [] op = ">=" -> <<">", "=">>
CompText(op, n) == OpText(op) \o NatToString(n)

CompOps == {"<", ">", "<=", ">="}

\* the integers written in generated cells: the small ones and the two
\* bounds of the reference table
CellNums == (0..MaxNum) \cup {40, 74}

\* digit strings, with and without a leading zero
DigitTexts == {NatToString(n) : n \in CellNums} \cup {<<"0">> \o NatToString(n) : n \in CellNums}

\* the strings quoted in generated string-literal cells
LiteralStrings == DigitTexts \cup {<<>>, T_true, T_false, T_female, T_male}

Alphabet == {" ", "-", "\"", "0", "1", "<", "=", "x"}

\* every text over Alphabet of at most MaxLen characters
ShortTexts == UNION {[1..n -> Alphabet] : n \in 0..MaxLen}

\* well-formed cells of each shape of the grammar, and a few near misses
ShapedTexts ==
     {RangeText(a, b) : a \in CellNums, b \in CellNums}
  \cup {CompText(op, n) : op \in CompOps, n \in CellNums}
  \cup DigitTexts
  \cup {Quote(t) : t \in LiteralStrings}
  \cup {T_true, T_false, <<"-">>, T_female}
  \cup {<<"[", "1", ".", ".", "]">>, <<"[", "1", ".", "2", "]">>, <<"1", ".", "5">>,
        <<"<", "=">>, <<"=", "1">>, <<"t", "r", "u", "e", "1">>, <<"\"", "x">>}

\* the raw values of entry.text: strings, and what the XML parser makes of
\* an empty element, of a numeric or boolean text and of an element with
\* attributes
CellValues ==
     {Str(t) : t \in ShortTexts}
  \cup {Str(Pad(l, t, r)) : l \in 0..1, r \in 0..1, t \in ShapedTexts}
  \cup {Num(n) : n \in CellNums}
  \cup {Bool(TRUE), Bool(FALSE), Undefined, Null}
  \cup {TextObj(RangeText(40, 74)), TextObj(<<"-">>)}

\* the runtime values a compiled predicate is applied to
InputNums   == UNION {{n - 1, n, n + 1} : n \in CellNums}
InputValues ==
     {Undefined, Null, Bool(TRUE), Bool(FALSE)}
  \cup {Num(n) : n \in InputNums}
  \cup {Str(t) : t \in LiteralStrings \cup {<<"-">>}}

\* no parseUnaryTest call made yet / predicate not applied yet
NotCompiled == [op |-> "none"]
NotApplied  == [k |-> "none"]

-----------------------------------------------------------------------------
(* Decision tables and evaluateDecision arguments                          *)

GenderInput == [name |-> "Gender", typeRef |-> "string"]
AgeInput    == [name |-> "AgeInYears", typeRef |-> "integer"]
RecentInput == [name |-> "MammogramInLastTwoYears", typeRef |-> "boolean"]
RecommendOutput == [name |-> "RecommendMammogram", typeRef |-> "boolean"]

Rule(cells, out) == [inputEntry |-> cells, outputEntry |-> out]

\* mammo.dmn: the reference clinical table
ReferenceTable ==
  [input  |-> <<GenderInput, AgeInput, RecentInput>>,
   output |-> RecommendOutput,
   rule   |-> << Rule(<<Str(Quote(T_female)), Str(RangeText(40, 74)), Str(T_false)>>, Str(T_true)),
                 Rule(<<Str(Quote(T_male)), Str(<<>>), Str(<<>>)>>, Str(T_false)),
                 Rule(<<Str(Quote(T_female)), Str(CompText("<", 40)), Str(<<>>)>>, Str(T_false)),
                 Rule(<<Str(Quote(T_female)), Str(CompText(">", 74)), Str(<<>>)>>, Str(T_false)) >>]

\* generated two-column tables: every cell a wildcard, a string literal or
\* a range, every output a boolean literal
GenCells   == {Str(<<>>), Str(Quote(T_female)), Str(RangeText(40, 74))}
GenOutputs == {Str(T_true), Str(T_false)}
GenRules   == {Rule(<<g, a>>, o) : g \in GenCells, a \in GenCells, o \in GenOutputs}
Table(rules) == [input |-> <<GenderInput, AgeInput>>, output |-> RecommendOutput, rule |-> rules]
GenTables  == {Table(rs) : rs \in UNION {[1..n -> GenRules] : n \in 1..MaxRules}}

\* tables the loader rejects or that have an unusual shape
OddTables ==
  { Table(<<>>),
    Table(<<Rule(<<>>, Str(T_true))>>),
    Table(<<Rule(<<Str(Quote(T_female))>>, Str(T_true))>>),
    Table(<<Rule(<<Str(<<>>), Str(<<>>), Str(<<>>)>>, Str(T_true))>>),
    Table(<<Rule(<<Str(T_female), Str(<<>>)>>, Str(T_true))>>),
    Table(<<Rule(<<Str(<<"-">>), Str(<<"-">>)>>, Str(T_true))>>),
    Table(<<Rule(<<Str(<<>>), Str(<<>>)>>, Str(T_true)),
            Rule(<<Str(<<>>), Str(<<" ", "-">>)>>, Str(T_false))>>),
    Table(<<Rule(<<Str(Quote(T_male)), Num(40)>>, Bool(TRUE)),
            Rule(<<Undefined, Str(CompText(">=", 40))>>, Str(<<>>))>>),
    Table(<<Rule(<<Str(Quote(T_female)), Str(<<>>)>>, Str(T_true)),
            Rule(<<Str(T_male), Str(<<>>)>>, Str(T_false))>>),
    Table(<<Rule(<<Str(Quote(T_female)), Str(<<>>)>>, Str(<<" ">>)),
            Rule(<<Str(<<>>), Str(<<>>)>>, Str(T_male))>>) }
  \cup { Table(<<Rule(<<Str(T_true), Str(CompText(op, 40))>>, Str(T_true))>>) :
            op \in CompOps }

\* the inputs mapping with the given values; an undefined value is a
\* missing key
Inputs(g, a, m) ==
  [n \in   {x \in {"Gender"} : g # Undefined}
      \cup {x \in {"AgeInYears"} : a # Undefined}
      \cup {x \in {"MammogramInLastTwoYears"} : m # Undefined}
     |-> CASE n = "Gender" -> g [] n = "AgeInYears" -> a [] OTHER -> m]

GenInputs ==
  {Inputs(g, a, Undefined) :
     g \in {Undefined, Str(T_female), Str(T_male), Bool(TRUE)},
     a \in {Undefined, Num(39), Num(40), Str(NatToString(40))}}

RefInputs ==
  {Inputs(g, a, m) :
     g \in {Undefined, Str(T_female), Str(T_male)},
     a \in {Undefined} \cup {Num(n) : n \in 0..MaxAge},
     m \in {Undefined, Bool(TRUE), Bool(FALSE)}}

NoResult == [k |-> "none"]
NoInputs == [k |-> "none"]

-----------------------------------------------------------------------------
(* Actions                                                                 *)

\* what a call of the exported loadDMN does to the module
LoadCall ==
  LET r == loadDMN(parsedDecision, dmnFile) IN
    /\ call' = "loadDMN"
    /\ callInputs' = NoInputs
    /\ parsedDecision' = r.cache
    /\ callOutcome' = IF r.threw THEN "threw" ELSE "returned"
    /\ callResult' = IF r.threw THEN NoResult ELSE r.value
    /\ UNCHANGED dmnFile

\* what a call of the exported evaluateDecision(inputs) does to the module
EvaluateCall(inputs) ==
  LET r == loadDMN(parsedDecision, dmnFile) IN
    /\ call' = "evaluateDecision"
    /\ callInputs' = inputs
    /\ parsedDecision' = IF r.threw THEN r.cache ELSE DecisionAfter(r.cache, inputs)
    /\ callOutcome' = IF r.threw THEN "threw" ELSE "returned"
    /\ callResult' = IF r.threw THEN NoResult ELSE evaluateDecision(r.value, inputs)
    /\ UNCHANGED dmnFile

\* a call of the exported loadDMN
LoadDMN == LoadCall /\ UNCHANGED <<cellVars, histVars, scriptVars>>

\* a call of the exported evaluateDecision(inputs)
EvaluateDecision(inputs) == EvaluateCall(inputs) /\ UNCHANGED <<cellVars, histVars, scriptVars>>

\* the history of the calls made so far, kept beside a call
Recorded ==
  /\ calls < MaxCalls
  /\ calls' = calls + 1
  /\ compiles' = IF loadDMN(parsedDecision, dmnFile).compiled THEN compiles + 1 ELSE compiles
  /\ firstTable' = IF firstTable = Null THEN parsedDecision' ELSE firstTable
  /\ firstInputs' = IF firstInputs = NoInputs /\ call' = "evaluateDecision" /\ callOutcome' = "returned"
                      THEN callInputs' ELSE firstInputs
  /\ firstResult' = IF firstInputs = NoInputs /\ call' = "evaluateDecision" /\ callOutcome' = "returned"
                      THEN callResult' ELSE firstResult
  /\ between' = (between \/ (firstInputs # NoInputs /\ call' = "evaluateDecision"
                                /\ callInputs' # firstInputs))

\* the same calls, with the history kept
LoadDMNRecorded == LoadCall /\ Recorded /\ UNCHANGED <<cellVars, scriptVars>>
EvaluateDecisionRecorded(inputs) == EvaluateCall(inputs) /\ Recorded /\ UNCHANGED <<cellVars, scriptVars>>

\* a call parseUnaryTest(textValue, inputType)
Compile ==
  /\ test = NotCompiled
  /\ test' = parseUnaryTest(textValue, "any")
  /\ UNCHANGED <<textValue, input, verdict, outputValue, tableVars, histVars, scriptVars>>

\* a call test(v) of the compiled predicate
ApplyTest(v) ==
  /\ IsPredicate(test)
  /\ input' = v
  /\ verdict' = Accepts(test, v)
  /\ UNCHANGED <<textValue, test, outputValue, tableVars, histVars, scriptVars>>

\* one parseOutputExpression call on the cell
CompileOutput ==
  /\ outputValue = NotCompiled
  /\ outputValue' = parseOutputExpression(textValue)
  /\ UNCHANGED <<textValue, test, input, verdict, tableVars, histVars, scriptVars>>

\* the predicate of the cell applied to the output value of the same cell
ApplyTestToOutput ==
  /\ outputValue # NotCompiled
  /\ ApplyTest(outputValue)

-----------------------------------------------------------------------------
(* test-teardown.js --all (src/unnamed/part_002, lines 157-285)            *)

\* faulty variant: the Patient pass comes first
resourceTypesPatientFirst == <<"Patient", "Observation", "Procedure", "Condition">>

\* const resourceTypes = ['Observation', 'Procedure', 'Condition', 'Patient']
resourceTypes == <<"Observation", "Procedure", "Condition", "Patient">>

\* the resources carrying the common tag that a server may hold
TaggedResources ==
  {[resourceType |-> t, id |-> i] :
     t \in {"Observation", "Procedure", "Condition", "Patient"}, i \in 1..MaxPerType}

\* GET /<resourceType>?_tag=...: the tagged resources of that type, in any
\* order; bundle.entry || [] is empty when there is none
SearchBundles(resourceType) ==
  LET found == {r \in server : r.resourceType = resourceType} IN
    {es \in [1..Cardinality(found) -> found] :
       \A i, j \in 1..Cardinality(found) : es[i] = es[j] => i = j}

\* how a fetch ends: response.ok, a response that is not ok, a rejection
FetchOutcomes == {"ok", "notOk", "rejected"}

\* a request as it is sent, with the resource types whose pass had returned
Request(method, resourceType, id) ==
  [method |-> method, resourceType |-> resourceType, id |-> id,
   returned |-> {resourceTypes[i] : i \in 1..(pass - 1)}]

\* deleteByTag: await fetch(searchUrl, { method: 'GET' }) is sent
SendSearch ==
  /\ teardownPc = "search"
  /\ requests' = Append(requests, Request("GET", resourceTypes[pass], 0))
  /\ deleted' = 0
  /\ teardownPc' = "awaitSearch"
  /\ UNCHANGED <<server, pass, entries, totalDeleted, dmnVars, appVars, runnerVars>>

\* the search ends: if (!searchResponse.ok) throw, else entries = bundle.entry || []
SearchEnds(outcome) ==
  /\ teardownPc = "awaitSearch"
  /\ IF outcome = "ok"
       THEN /\ entries' \in SearchBundles(resourceTypes[pass])
            /\ teardownPc' = "loop"
       ELSE /\ entries' = entries
            /\ teardownPc' = "threw"
  /\ UNCHANGED <<server, pass, deleted, totalDeleted, requests, dmnVars, appVars, runnerVars>>

\* for (const entry of entries): await fetch(deleteUrl, { method: 'DELETE' }) is sent
SendDelete ==
  /\ teardownPc = "loop"
  /\ entries # <<>>
  /\ requests' = Append(requests,
                        Request("DELETE", Head(entries).resourceType, Head(entries).id))
  /\ teardownPc' = "awaitDelete"
  /\ UNCHANGED <<server, pass, entries, deleted, totalDeleted, dmnVars, appVars, runnerVars>>

\* the delete ends: deleted++ if deleteResponse.ok, a log line otherwise
DeleteEnds(outcome) ==
  /\ teardownPc = "awaitDelete"
  /\ server' = IF outcome = "ok" THEN server \ {Head(entries)} ELSE server
  /\ deleted' = IF outcome = "ok" THEN deleted + 1 ELSE deleted
  /\ entries' = IF outcome = "rejected" THEN entries ELSE Tail(entries)
  /\ teardownPc' = IF outcome = "rejected" THEN "threw" ELSE "loop"
  /\ UNCHANGED <<pass, totalDeleted, requests, dmnVars, appVars, runnerVars>>

\* return deleted; totalDeleted += deleted; the next resourceType
ReturnDeleted ==
  /\ teardownPc = "loop"
  /\ entries = <<>>
  /\ totalDeleted' = totalDeleted + deleted
  /\ pass' = pass + 1
  /\ teardownPc' = IF pass = Len(resourceTypes) THEN "done" ELSE "search"
  /\ UNCHANGED <<server, entries, deleted, requests, dmnVars, appVars, runnerVars>>

\* the script as it starts against a server holding the given resources
TeardownIdle(servers) ==
  /\ server \in servers
  /\ pass = 1
  /\ teardownPc = "search"
  /\ entries = <<>>
  /\ deleted = 0
  /\ totalDeleted = 0
  /\ requests = <<>>

-----------------------------------------------------------------------------
(* The React App (src/unnamed/part_004)                                    *)

PatientIds == 1..MaxPatients

\* the patient resource fetched from /fhir/Patient/<patientId>
PatientOf(patientId) == [id |-> patientId]
\* the result of Library/BreastCancerScreening/$evaluate?subject=Patient/<patientId>
ResultFor(patientId) == [subject |-> patientId]

\* evaluations without the call at position i
Ended(i) ==
  SubSeq(evaluations, 1, i - 1) \o SubSeq(evaluations, i + 1, Len(evaluations))

\* fetchPatients: the bundle arrives, setPatients(patientList)
FetchPatients(patientList) ==
  /\ patientsPending
  /\ patientsPending' = FALSE
  /\ patients' = patientList
  /\ UNCHANGED <<selectedPatientId, selectedPatient, cdsResult, loading, error,
                 evaluations, dmnVars, teardownVars, runnerVars>>

\* fetchPatients: catch (err) { setError('Failed to fetch patients: ' + ...) }
FetchPatientsCatch ==
  /\ patientsPending
  /\ patientsPending' = FALSE
  /\ error' = "Failed to fetch patients"
  /\ UNCHANGED <<patients, selectedPatientId, selectedPatient, cdsResult, loading,
                 evaluations, dmnVars, teardownVars, runnerVars>>

\* onChange of the select: setSelectedPatientId(e.target.value), then the
\* effect on [selectedPatientId]: evaluateCds up to its first await for a
\* patient id, setCdsResult(null) and setSelectedPatient(null) for ''
SetSelectedPatientId(patientId) ==
  /\ patientId \in patients \cup {0}
  /\ patientId # selectedPatientId
  /\ selectedPatientId' = patientId
  /\ IF patientId # 0
       THEN /\ Len(evaluations) < MaxInFlight
            /\ loading' = TRUE
            /\ error' = Null
            /\ cdsResult' = Null
            /\ evaluations' = Append(evaluations,
                                     [patientId |-> patientId, awaits |-> "patient"])
            /\ UNCHANGED selectedPatient
       ELSE /\ cdsResult' = Null
            /\ selectedPatient' = Null
            /\ UNCHANGED <<loading, error, evaluations>>
  /\ UNCHANGED <<patients, patientsPending, dmnVars, teardownVars, runnerVars>>

\* evaluateCds: the patient arrives, setSelectedPatient(patient), and the
\* $evaluate request is sent
EvaluateCdsPatient(i) ==
  /\ i \in 1..Len(evaluations)
  /\ evaluations[i].awaits = "patient"
  /\ selectedPatient' = PatientOf(evaluations[i].patientId)
  /\ evaluations' = [evaluations EXCEPT ![i].awaits = "cds"]
  /\ UNCHANGED <<patients, patientsPending, selectedPatientId, cdsResult, loading,
                 error, dmnVars, teardownVars, runnerVars>>

\* evaluateCds: the result arrives, setCdsResult(result); finally setLoading(false)
EvaluateCdsResult(i) ==
  /\ i \in 1..Len(evaluations)
  /\ evaluations[i].awaits = "cds"
  /\ cdsResult' = ResultFor(evaluations[i].patientId)
  /\ loading' = FALSE
  /\ evaluations' = Ended(i)
  /\ UNCHANGED <<patients, patientsPending, selectedPatientId, selectedPatient,
                 error, dmnVars, teardownVars, runnerVars>>

\* evaluateCds: either fetch fails, catch (err) { setError('Failed to
\* evaluate CDS: ' + ...) }; finally setLoading(false)
EvaluateCdsCatch(i) ==
  /\ i \in 1..Len(evaluations)
  /\ error' = "Failed to evaluate CDS"
  /\ loading' = FALSE
  /\ evaluations' = Ended(i)
  /\ UNCHANGED <<patients, patientsPending, selectedPatientId, selectedPatient,
                 cdsResult, dmnVars, teardownVars, runnerVars>>

\* the App after its first render, fetchPatients under way
AppIdle ==
  /\ patients = {}
  /\ patientsPending = TRUE
  /\ selectedPatientId = 0
  /\ selectedPatient = Null
  /\ cdsResult = Null
  /\ loading = FALSE
  /\ error = Null
  /\ evaluations = <<>>

-----------------------------------------------------------------------------
(* test-runner.js (src/unnamed/part_002, lines 1-156)                      *)

T_all == <<"-", "-", "a", "l", "l">>

\* the names of the case directories
CaseId(i) == <<"c">> \o NatToString(i)
CaseIds   == {CaseId(i) : i \in 1..MaxCases}

\* tests/generated: missing, or the case directories that
\* readdirSync(generatedDir).filter(existsSync(.../_metadata.json)) yields
NoDirectory == [exists |-> FALSE, cases |-> <<>>]
Listings ==
  {[exists |-> TRUE, cases |-> [i \in 1..n |-> CaseId(i)]] : n \in 0..MaxCases}
    \cup {NoDirectory}

\* process.argv.slice(2)
ArgLists == {<<>>, <<T_all>>} \cup {<<c>> : c \in CaseIds}

\* metadata.expected: an object of expected parameter values, or no such key
NoKeys == [n \in {} |-> Null]
Expectations ==
  {NoKeys, Undefined}
    \cup {[n \in {"RecommendMammogram"} |-> v] : v \in {Bool(TRUE), Bool(FALSE), Null}}

\* what runTestCase finds at metadataPath: no file, a file JSON.parse
\* rejects, or the metadata with or without a Patient among its resources
MetadataFiles ==
  {[k |-> "missing"], [k |-> "unparsable"]}
    \cup {[k |-> "metadata", patient |-> b, expected |-> x] :
            b \in BOOLEAN, x \in Expectations}

\* the entries of parameters.parameter: a valueBoolean, a _valueBoolean
\* with a data-absent-reason extension, or an entry of no handled kind
Parameters ==
  {[name |-> "RecommendMammogram", kind |-> "valueBoolean", value |-> Bool(b)] :
     b \in BOOLEAN}
    \cup {[name |-> "RecommendMammogram", kind |-> "dataAbsent", value |-> Null],
          [name |-> "RecommendMammogram", kind |-> "none", value |-> Undefined]}

\* how the $evaluate fetch ends: rejected, a response that is not ok, a
\* body response.json() rejects, or a Parameters resource
EvaluateResponses ==
  {[k |-> "rejected"], [k |-> "notOk"], [k |-> "badJson"]}
    \cup {[k |-> "ok", parameter |-> <<>>]}
    \cup {[k |-> "ok", parameter |-> <<x>>] : x \in Parameters}
    \cup {[k |-> "ok", parameter |-> <<x, y>>] :
            x \in Parameters, y \in {z \in Parameters : z.kind = "valueBoolean"}}

\* parseParameters: result[name] = the value of the last entry of that
\* name that carries one
parseParameters(parameters) ==
  LET set == {i \in 1..Len(parameters.parameter) :
                parameters.parameter[i].kind # "none"} IN
    [n \in {parameters.parameter[i].name : i \in set} |->
       LET last == CHOOSE i \in set :
                     /\ parameters.parameter[i].name = n
                     /\ \A j \in set : parameters.parameter[j].name = n => j <= i
       IN parameters.parameter[last].value]

\* compareResults: the keys of expected whose actual value !== the expected
compareResults(actual, expectedValues) ==
  {key \in DOMAIN expectedValues : Lookup(actual, key) # expectedValues[key]}

\* what await runTestCase(caseId) gives the main loop
Threw         == [threw |-> TRUE]
Returned(ok)  == [threw |-> FALSE, passed |-> ok]

\* faulty variant: the catch block logs the error and counts nothing
mainLoopBodyCatchSilent(counts, result) ==
  IF result.threw THEN counts
  ELSE IF result.passed THEN [counts EXCEPT !.passed = @ + 1]
  ELSE [counts EXCEPT !.failed = @ + 1]

\* try { if (result.passed) passed++; else failed++ } catch (err) { failed++ }
mainLoopBody(counts, result) ==
  IF result.threw THEN [counts EXCEPT !.failed = @ + 1]
  ELSE IF result.passed THEN [counts EXCEPT !.passed = @ + 1]
  ELSE [counts EXCEPT !.failed = @ + 1]

\* the history entry of a run
Outcome(result) ==
  IF result.threw THEN "threw" ELSE IF result.passed THEN "passed" ELSE "failed"

\* the main loop moves to the next case with the counters of this one
NextCase(result) ==
  LET counts == mainLoopBody([passed |-> passed, failed |-> failed], result) IN
    /\ passed' = counts.passed
    /\ failed' = counts.failed
    /\ outcomes' = Append(outcomes, Outcome(result))
    /\ caseIndex' = caseIndex + 1
    /\ runnerPc' = "loop"

\* the script up to the main loop: the usage exit without arguments, the
\* uncaught error of readdirSync, or casesToRun, passed = 0 and failed = 0
Main ==
  /\ runnerPc = "main"
  /\ IF args = <<>>
       THEN /\ runnerPc' = "usage"
            /\ exitCode' = 1
            /\ UNCHANGED casesToRun
       ELSE IF args[1] = T_all /\ ~generated.exists
       THEN /\ runnerPc' = "crashed"
            /\ exitCode' = 1
            /\ UNCHANGED casesToRun
       ELSE /\ runnerPc' = "loop"
            /\ casesToRun' = IF args[1] = T_all THEN generated.cases ELSE <<args[1]>>
            /\ UNCHANGED exitCode
  /\ UNCHANGED <<args, generated, caseIndex, expected, passed, failed, outcomes,
                 dmnVars, teardownVars, appVars>>

\* runTestCase up to its await: it throws when the metadata file is
\* missing, unparsable or names no Patient, and sends the $evaluate otherwise
RunTestCase(metadata) ==
  /\ runnerPc = "loop"
  /\ caseIndex <= Len(casesToRun)
  /\ IF metadata.k # "metadata" \/ ~metadata.patient
       THEN /\ NextCase(Threw)
            /\ UNCHANGED expected
       ELSE /\ expected' = metadata.expected
            /\ runnerPc' = "awaitEvaluate"
            /\ UNCHANGED <<caseIndex, passed, failed, outcomes>>
  /\ UNCHANGED <<args, generated, casesToRun, exitCode,
                 dmnVars, teardownVars, appVars>>

\* the $evaluate fetch ends: runTestCase throws, or compares the
\* parameters with metadata.expected and returns passed true or false
EvaluateEnds(response) ==
  /\ runnerPc = "awaitEvaluate"
  /\ NextCase(IF response.k # "ok" \/ expected = Undefined
                THEN Threw
                ELSE Returned(compareResults(parseParameters(response), expected) = {}))
  /\ expected' = NoResult
  /\ UNCHANGED <<args, generated, casesToRun, exitCode,
                 dmnVars, teardownVars, appVars>>

\* process.exit(failed > 0 ? 1 : 0)
Exit ==
  /\ runnerPc = "loop"
  /\ caseIndex > Len(casesToRun)
  /\ exitCode' = IF failed > 0 THEN 1 ELSE 0
  /\ runnerPc' = "exited"
  /\ UNCHANGED <<args, generated, casesToRun, caseIndex, expected, passed, failed,
                 outcomes, dmnVars, teardownVars, appVars>>

\* the script as it starts with the given arguments and directories; the
\* counters, not yet declared, stand at 0 and the exit code at -1
RunnerIdle(argLists, listings) ==
  /\ args \in argLists
  /\ generated \in listings
  /\ runnerPc = "main"
  /\ casesToRun = <<>>
  /\ caseIndex = 1
  /\ expected = NoResult
  /\ passed = 0
  /\ failed = 0
  /\ exitCode = -1
  /\ outcomes = <<>>

ScriptsIdle == TeardownIdle({{}}) /\ AppIdle /\ RunnerIdle({<<>>}, {NoDirectory})

-----------------------------------------------------------------------------
(* Specifications                                                          *)

CellIdle ==
  /\ textValue = Undefined
  /\ test = NotCompiled
  /\ input = NotApplied
  /\ verdict = FALSE
  /\ outputValue = NotCompiled

HistIdle ==
  /\ calls = 0
  /\ compiles = 0
  /\ firstTable = Null
  /\ firstInputs = NoInputs
  /\ firstResult = NoResult
  /\ between = FALSE

TableIdle(tables) ==
  /\ dmnFile \in tables
  /\ parsedDecision = Null
  /\ call = "none"
  /\ callInputs = NoInputs
  /\ callOutcome = "none"
  /\ callResult = NoResult

\* the module after import, over the generated and the odd tables
Init == TableIdle(GenTables \cup OddTables) /\ CellIdle /\ HistIdle /\ ScriptsIdle
Next == LoadDMN \/ \E inputs \in GenInputs : EvaluateDecision(inputs)
Spec == Init /\ [][Next]_vars

\* the module after import, over the reference table
InitRef == TableIdle({ReferenceTable}) /\ CellIdle /\ HistIdle /\ ScriptsIdle
NextRef == LoadDMN \/ \E inputs \in RefInputs : EvaluateDecision(inputs)
SpecRef == InitRef /\ [][NextRef]_vars

\* the compiler alone: one cell compiled, its predicate applied to values
InitCell ==
  /\ TableIdle({ReferenceTable})
  /\ HistIdle
  /\ ScriptsIdle
  /\ textValue \in CellValues
  /\ test = NotCompiled
  /\ input = NotApplied
  /\ verdict = FALSE
  /\ outputValue = NotCompiled
NextCell ==
  \/ Compile
  \/ CompileOutput
  \/ \E v \in InputValues : ApplyTest(v)
  \/ ApplyTestToOutput
SpecCell == InitCell /\ [][NextCell]_vars

\* the module after import, with the history of the calls kept: the odd
\* tables, the reference table and every generated table of one rule
CacheTables == OddTables \cup {ReferenceTable} \cup {Table(<<r>>) : r \in GenRules}
InitCache == TableIdle(CacheTables) /\ CellIdle /\ HistIdle /\ ScriptsIdle
NextCache == LoadDMNRecorded \/ \E inputs \in GenInputs : EvaluateDecisionRecorded(inputs)
SpecCache == InitCache /\ [][NextCache]_vars

\* test-teardown.js --all against every server within the bound
InitTeardown ==
  /\ TableIdle({ReferenceTable})
  /\ CellIdle
  /\ HistIdle
  /\ TeardownIdle(SUBSET TaggedResources)
  /\ AppIdle
  /\ RunnerIdle({<<>>}, {NoDirectory})
NextTeardown ==
  \/ SendSearch
  \/ \E outcome \in FetchOutcomes : SearchEnds(outcome)
  \/ SendDelete
  \/ \E outcome \in FetchOutcomes : DeleteEnds(outcome)
  \/ ReturnDeleted
SpecTeardown == InitTeardown /\ [][NextTeardown]_vars

\* the App from its first render on
InitApp == TableIdle({ReferenceTable}) /\ CellIdle /\ HistIdle /\ ScriptsIdle
NextApp ==
  \/ \E patientList \in SUBSET PatientIds : FetchPatients(patientList)
  \/ FetchPatientsCatch
  \/ \E patientId \in PatientIds \cup {0} : SetSelectedPatientId(patientId)
  \/ \E i \in 1..MaxInFlight :
       EvaluateCdsPatient(i) \/ EvaluateCdsResult(i) \/ EvaluateCdsCatch(i)
SpecApp == InitApp /\ [][NextApp]_vars

\* test-runner.js with every argument list and directory within the bound
InitRunner ==
  /\ TableIdle({ReferenceTable})
  /\ CellIdle
  /\ HistIdle
  /\ TeardownIdle({{}})
  /\ AppIdle
  /\ RunnerIdle(ArgLists, Listings)
NextRunner ==
  \/ Main
  \/ \E metadata \in MetadataFiles : RunTestCase(metadata)
  \/ \E response \in EvaluateResponses : EvaluateEnds(response)
  \/ Exit
SpecRunner == InitRunner /\ [][NextRunner]_vars

-----------------------------------------------------------------------------
(* Properties of evaluateDecision (Spec, SpecRef)                          *)

\* the last call was an evaluateDecision call that returned
Evaluated == call = "evaluateDecision" /\ callOutcome = "returned"

\* all conditions of rule i of the cached table hold of the last inputs
Satisfied(i) ==
  \A c \in 1..Len(parsedDecision.rules[i].conditions) :
    Accepts(parsedDecision.rules[i].conditions[c].test,
            Lookup(callInputs, parsedDecision.rules[i].conditions[c].inputName))

RuleIds == 1..Len(parsedDecision.rules)
Payload == callResult[parsedDecision.output.name]

\* C1: first-match priority. Whenever evaluateDecision returns, the payload
\* is the outputValue of the lowest-index rule whose conditions all hold,
\* whatever later rules hold as well.
C1_FirstMatchPriority ==
  Evaluated =>
    \A i \in RuleIds :
      (Satisfied(i) /\ \A j \in 1..(i - 1) : ~Satisfied(j))
        => Payload = parsedDecision.rules[i].outputValue

\* two rules with different outputs both hold, and the earlier one's output
\* was returned
C1_Witness ==
  /\ Evaluated
  /\ \E i \in RuleIds : \E j \in RuleIds :
       /\ i < j
       /\ Satisfied(i) /\ Satisfied(j)
       /\ \A h \in 1..(i - 1) : ~Satisfied(h)
       /\ parsedDecision.rules[i].outputValue # parsedDecision.rules[j].outputValue
       /\ Payload = parsedDecision.rules[i].outputValue

\* C2: no-match fallback. With a compiled table evaluateDecision does not
\* throw, and when no rule has all its conditions satisfied it returns the
\* mapping whose only key is the output name, bound to null.
C2_NoMatchFallback ==
  (call = "evaluateDecision" /\ parsedDecision # Null) =>
    /\ callOutcome = "returned"
    /\ (\A i \in RuleIds : ~Satisfied(i)) =>
         /\ DOMAIN callResult = {parsedDecision.output.name}
         /\ Payload = Null

\* a call on a table with two rules, neither of which holds
C2_Witness ==
  /\ Evaluated
  /\ Len(parsedDecision.rules) = 2
  /\ \A i \in RuleIds : ~Satisfied(i)
  /\ callResult = [n \in {"RecommendMammogram"} |-> Null]

\* the recommendation the reference table is meant to give
Recommended(g, a, m) ==
  IF g = Str(T_female) /\ 40 <= a.n /\ a.n <= 74 /\ m = Bool(FALSE) THEN Bool(TRUE)
  ELSE IF g = Str(T_male) \/ (g = Str(T_female) /\ (a.n < 40 \/ a.n > 74)) THEN Bool(FALSE)
  ELSE Null

\* C3: on the reference table, for a female or male patient of any integer
\* age and either flag, RecommendMammogram is true exactly for a female of
\* 40 to 74 without a recent mammogram, false for a male and for a female
\* under 40 or over 74, and null otherwise.
C3_ReferenceTable ==
  (Evaluated /\ DOMAIN callInputs = {"Gender", "AgeInYears", "MammogramInLastTwoYears"}) =>
    callResult = [n \in {"RecommendMammogram"} |->
                    Recommended(callInputs["Gender"], callInputs["AgeInYears"],
                                callInputs["MammogramInLastTwoYears"])]

\* the upper boundary: female, 74, no recent mammogram gives true
C3_Witness ==
  /\ Evaluated
  /\ callInputs = Inputs(Str(T_female), Num(74), Bool(FALSE))
  /\ callResult = [n \in {"RecommendMammogram"} |-> Bool(TRUE)]

\* the raw cell of rule i, column c is a wildcard cell: empty or a lone '-'
WildcardCell(i, c) ==
  dmnFile.rule[i].inputEntry[c] \in {Str(<<>>), Str(<<"-">>), Undefined}

\* rule i holds as far as its cells that are not wildcards go
HoldsButWildcards(i) ==
  \A c \in 1..Len(parsedDecision.rules[i].conditions) :
    \/ WildcardCell(i, c)
    \/ Accepts(parsedDecision.rules[i].conditions[c].test,
               Lookup(callInputs, parsedDecision.rules[i].conditions[c].inputName))

\* C6: a wildcard cell accepts whatever the inputs hold for its column, a
\* string, a boolean, an integer or nothing: the first rule whose other
\* cells hold is the rule that fires.
C6_WildcardAcceptsAll ==
  Evaluated =>
    \A i \in RuleIds :
      (HoldsButWildcards(i) /\ \A j \in 1..(i - 1) : ~HoldsButWildcards(j))
        => Payload = parsedDecision.rules[i].outputValue

\* a rule of two wildcard cells fired on the empty inputs mapping
C6_Witness ==
  /\ Evaluated
  /\ DOMAIN callInputs = {}
  /\ Len(parsedDecision.rules[1].conditions) = 2
  /\ WildcardCell(1, 1) /\ WildcardCell(1, 2)
  /\ Payload = parsedDecision.rules[1].outputValue

-----------------------------------------------------------------------------
(* Properties of parseUnaryTest (SpecCell)                                 *)

Compiled == test # NotCompiled
Applied  == input # NotApplied

PadsOf(t) == {Str(Pad(l, t, r)) : l \in 0..1, r \in 0..1}

\* C4: the predicate of the range cell [min..max] accepts an integer v
\* exactly when min <= v <= max, both ends included.
C4_RangeInclusive ==
  \A min \in CellNums : \A max \in CellNums :
    (Compiled /\ textValue \in PadsOf(RangeText(min, max))) =>
      /\ IsPredicate(test)
      /\ (Applied /\ input.k = "number") => (verdict <=> (min <= input.n /\ input.n <= max))

\* [40..74] applied to 74 accepted it
C4_Witness ==
  /\ textValue = Str(RangeText(40, 74))
  /\ input = Num(74)
  /\ verdict = TRUE

\* what the comparison cell op n is meant to accept
Compares(op, v, n) ==
  CASE op = "<" -> v < n [] op = ">" -> v > n [] op = "<=" -> v <= n [] op = ">=" -> v >= n

\* C5: the predicate of the comparison cell <n, >n, <=n, >=n accepts an
\* integer v exactly when v < n, v > n, v <= n, v >= n; in particular <=n
\* and >=n accept n and are not read as < or > with a remainder.
C5_ComparisonOperators ==
  \A op \in CompOps : \A n \in CellNums :
    (Compiled /\ textValue \in PadsOf(CompText(op, n))) =>
      /\ IsPredicate(test)
      /\ (Applied /\ input.k = "number") => (verdict <=> Compares(op, input.n, n))

\* <=40 applied to 40 accepted it
C5_Witness ==
  /\ textValue = Str(CompText("<=", 40))
  /\ input = Num(40)
  /\ verdict = TRUE

\* C7: every cell text whose trimmed form is empty or a lone '-' compiles
\* to the wildcard predicate.
C7_TrimmedWildcard ==
  (Compiled /\ textValue.k = "string" /\ Trim(textValue.s) \in {<<>>, <<"-">>})
    => test = AnyTest

\* the shapes of the grammar, written out
G_Digits(t) == Len(t) >= 1 /\ \A i \in 1..Len(t) : t[i] \in Digits
G_Quoted(t) == Len(t) >= 2 /\ t[1] = "\"" /\ t[Len(t)] = "\""
G_Range(t) ==
  \E p \in 2..(Len(t) - 4) :
    /\ t[1] = "[" /\ t[Len(t)] = "]"
    /\ G_Digits(SubSeq(t, 2, p))
    /\ SubSeq(t, p + 1, p + 2) = <<".", ".">>
    /\ G_Digits(SubSeq(t, p + 3, Len(t) - 1))
G_Comp(t) ==
  \E op \in CompOps :
    /\ Len(t) > Len(OpText(op))
    /\ SubSeq(t, 1, Len(OpText(op))) = OpText(op)
    /\ G_Digits(SubSeq(t, Len(OpText(op)) + 1, Len(t)))
InGrammar(t) ==
  \/ t \in {<<>>, <<"-">>, T_true, T_false}
  \/ G_Quoted(t) \/ G_Range(t) \/ G_Comp(t) \/ G_Digits(t)

\* C8: every cell text whose trimmed form has none of the shapes of the
\* grammar makes parseUnaryTest throw; none yields a predicate.
C8_OutsideGrammarThrows ==
  (Compiled /\ textValue.k = "string" /\ ~InGrammar(Trim(textValue.s)))
    => test.op = "throw"

\* C9: a quoted digit string "d" compiles to equality with the string d
\* (the integer d is rejected), the bare d to equality with the integer d
\* (the string d is rejected), and "true" / "false" in quotes to equality
\* with those strings, not with the booleans.
C9_QuotedStaysString ==
  /\ \A n \in CellNums : \A z \in {<<>>, <<"0">>} :
       LET d == z \o NatToString(n) IN
         /\ (Compiled /\ textValue \in PadsOf(Quote(d))) =>
              /\ IsPredicate(test)
              /\ Applied => (verdict <=> input = Str(d))
         /\ (Compiled /\ textValue \in PadsOf(d)) =>
              /\ IsPredicate(test)
              /\ Applied => (verdict <=> input = Num(n))
  /\ \A b \in {T_true, T_false} :
       (Compiled /\ textValue \in PadsOf(Quote(b))) =>
         /\ IsPredicate(test)
         /\ Applied => (verdict <=> input = Str(b))

\* "40" in quotes applied to the integer 40 rejected it
C9_Witness ==
  /\ textValue = Str(Quote(NatToString(40)))
  /\ input = Num(40)
  /\ verdict = FALSE

\* C10: the predicate of the literal true (false) accepts the boolean true
\* (false) and nothing else: not the other boolean, no string, no integer,
\* not an absent value.
C10_BooleanLiteralExact ==
  \A b \in BOOLEAN :
    (Compiled /\ textValue \in PadsOf(IF b THEN T_true ELSE T_false) \cup {Bool(b)}) =>
      /\ IsPredicate(test)
      /\ Applied => (verdict <=> input = Bool(b))

\* the literal true applied to the integer 1 rejected it
C10_Witness ==
  /\ textValue = Str(T_true)
  /\ input = Num(1)
  /\ verdict = FALSE

-----------------------------------------------------------------------------
(* Properties of the cache (SpecCache)                                     *)

\* C11: evaluateDecision is pure with respect to the compiled table. After
\* any sequence of calls the cached table is the table first stored, with
\* its inputs, output name, rules, conditions and output values, and a
\* call with the inputs of the first call returns what the first call
\* returned, whatever calls were made in between.
C11_EvaluationIsPure ==
  Evaluated =>
    /\ parsedDecision = firstTable
    /\ callInputs = firstInputs => callResult = firstResult

\* a third call repeated the inputs of the first after a call with other
\* inputs, on a table whose rule fired
C11_Witness ==
  /\ Evaluated
  /\ calls = 3
  /\ between
  /\ callInputs = firstInputs
  /\ callResult = firstResult
  /\ callResult # [n \in {"RecommendMammogram"} |-> Null]

\* C12: compile once, reuse. Once a table is cached the file has been read
\* and compiled exactly once, the cache holds the table first stored and
\* never another, and every loadDMN call returns that table.
C12_CompileOnce ==
  /\ parsedDecision # Null => (compiles = 1 /\ parsedDecision = firstTable)
  /\ firstTable # Null => parsedDecision = firstTable
  /\ (call = "loadDMN" /\ callOutcome = "returned") => callResult = firstTable

\* a loadDMN call after two other calls returned the table compiled once
C12_Witness ==
  /\ call = "loadDMN"
  /\ callOutcome = "returned"
  /\ calls = 3
  /\ compiles = 1
  /\ callResult = parsedDecision
  /\ Len(parsedDecision.rules) = 4

-----------------------------------------------------------------------------
(* Properties of the loader (Spec)                                         *)

\* some input cell of the file makes parseUnaryTest throw
CellThrows ==
  \E r \in 1..Len(dmnFile.rule) :
    \E idx \in 1..Len(dmnFile.rule[r].inputEntry) :
      ~IsPredicate(parseUnaryTest(dmnFile.rule[r].inputEntry[idx], "any"))

\* C13: a compilation failure is fatal and leaves no partial table. When a
\* cell of the file does not compile, every loadDMN and evaluateDecision
\* call throws and returns nothing, and parsedDecision stays empty.
C13_CompileFailureIsFatal ==
  CellThrows =>
    /\ parsedDecision = Null
    /\ call # "none" => (callOutcome = "threw" /\ callResult = NoResult)

\* evaluateDecision threw on a file whose first rule compiles and whose
\* second rule does not
C13_Witness ==
  /\ Len(dmnFile.rule) = 2
  /\ \A idx \in 1..2 : IsPredicate(parseUnaryTest(dmnFile.rule[1].inputEntry[idx], "any"))
  /\ ~IsPredicate(parseUnaryTest(dmnFile.rule[2].inputEntry[1], "any"))
  /\ call = "evaluateDecision"
  /\ callOutcome = "threw"
  /\ parsedDecision = Null

\* rule i of the cached table has a condition other than the wildcard on a
\* column whose key is missing from the last inputs
NeedsMissing(i) ==
  \E c \in 1..Len(parsedDecision.rules[i].conditions) :
    /\ parsedDecision.rules[i].conditions[c].test # AnyTest
    /\ parsedDecision.rules[i].conditions[c].inputName \notin DOMAIN callInputs

\* C14: absent inputs degrade to no-match, never to an error. Once a table
\* is compiled every evaluateDecision call returns; every condition of the
\* table other than the wildcard is false of the absent value; a rule with
\* such a condition on a missing column does not hold, and when every rule
\* has one the payload is null.
C14_AbsentInputNoMatch ==
  (parsedDecision # Null /\ call = "evaluateDecision") =>
    /\ callOutcome = "returned"
    /\ \A i \in RuleIds :
         /\ \A c \in 1..Len(parsedDecision.rules[i].conditions) :
              parsedDecision.rules[i].conditions[c].test # AnyTest
                => ~Accepts(parsedDecision.rules[i].conditions[c].test, Undefined)
         /\ NeedsMissing(i) => ~Satisfied(i)
    /\ (\A i \in RuleIds : NeedsMissing(i)) => Payload = Null

\* a rule whose only unmet condition is a comparison that 0 would satisfy,
\* on the missing age column, did not fire
C14_Witness ==
  /\ Evaluated
  /\ Len(parsedDecision.rules) = 1
  /\ Len(parsedDecision.rules[1].conditions) = 2
  /\ parsedDecision.rules[1].conditions[2].test = CompTest("<", 40)
  /\ "AgeInYears" \notin DOMAIN callInputs
  /\ Lookup(callInputs, "Gender") = Bool(TRUE)
  /\ Accepts(parsedDecision.rules[1].conditions[1].test, Bool(TRUE))
  /\ Payload = Null

-----------------------------------------------------------------------------
(* Properties of the output compiler (SpecCell)                            *)

OutputCompiled == outputValue # NotCompiled

\* the digits t, leading zeros allowed, write the integer n
IsNumeral(t, n) ==
  \E z \in 0..(Len(t) - 1) :
    /\ \A i \in 1..z : t[i] = "0"
    /\ SubSeq(t, z + 1, Len(t)) = NatToString(n)

\* the trimmed text is one of the literals an output cell may hold
OutputLiteral(raw) ==
  \/ raw = <<>>
  \/ Trim(raw) \in {T_true, T_false}
  \/ G_Quoted(Trim(raw))
  \/ G_Digits(Trim(raw))

\* C15: parseOutputExpression returns the boolean for true / false, the
\* string without its quotes for a quoted text, the integer for digits and
\* null for the empty text; and the predicate parseUnaryTest makes of the
\* same text accepts that value.
C15_OutputLiteralValue ==
  LET raw  == getText(textValue)
      text == Trim(raw)
  IN /\ OutputCompiled =>
          /\ raw = <<>> => outputValue = Null
          /\ text = T_true => outputValue = Bool(TRUE)
          /\ text = T_false => outputValue = Bool(FALSE)
          /\ G_Quoted(text) => outputValue = Str(SubSeq(text, 2, Len(text) - 1))
          /\ G_Digits(text) => /\ outputValue.k = "number"
                               /\ IsNumeral(text, outputValue.n)
     /\ (Compiled /\ OutputLiteral(raw)) => IsPredicate(test)
     /\ (Compiled /\ OutputCompiled /\ OutputLiteral(raw) /\ input = outputValue)
          => verdict

\* the output value of "40" in quotes is the string 40, and the predicate
\* of the same cell accepted it
C15_Witness ==
  /\ textValue = Str(Quote(NatToString(40)))
  /\ outputValue = Str(NatToString(40))
  /\ test = StringTest(NatToString(40))
  /\ input = outputValue
  /\ verdict

-----------------------------------------------------------------------------
(* Properties of the stored table (Spec)                                   *)

\* C16: table shape. In every table loadDMN stores, each rule has exactly
\* one condition per input column, condition c carrying the name of input
\* column c.
C16_OneConditionPerInput ==
  parsedDecision # Null =>
    \A i \in RuleIds :
      /\ Len(parsedDecision.rules[i].conditions) = Len(parsedDecision.inputs)
      /\ \A c \in 1..Len(parsedDecision.rules[i].conditions) :
           parsedDecision.rules[i].conditions[c].inputName
             = parsedDecision.inputs[c].name


\* rule i is the first rule of the cached table that holds of the last inputs
FirstSatisfied(i) == Satisfied(i) /\ \A j \in 1..(i - 1) : ~Satisfied(j)

\* C18 as stated: a null payload only when no rule matched. Whenever
\* evaluateDecision returns and some rule's conditions all hold, the
\* payload is not null.
C18_NullOnlyOnNoMatch ==
  Evaluated => ((\E i \in RuleIds : Satisfied(i)) => Payload # Null)

\* C18 amended: whenever evaluateDecision returns, the payload is null
\* exactly when no rule holds or the output cell of the first rule that
\* holds has no text.
C18_NullOnNoMatchOrEmptyOutput ==
  Evaluated =>
    (Payload = Null <=>
       \/ \A i \in RuleIds : ~Satisfied(i)
       \/ \E i \in RuleIds :
            FirstSatisfied(i) /\ getText(dmnFile.rule[i].outputEntry) = <<>>)

\* a rule with an empty output cell fired after an earlier rule failed, and
\* the payload is null
C18_Witness ==
  /\ Evaluated
  /\ Len(parsedDecision.rules) = 2
  /\ ~Satisfied(1)
  /\ Satisfied(2)
  /\ dmnFile.rule[2].outputEntry = Str(<<>>)
  /\ Payload = Null

-----------------------------------------------------------------------------
(* Properties of test-teardown.js --all (SpecTeardown)                     *)

Dependents == {"Observation", "Procedure", "Condition"}
DependentsFirst == <<"Observation", "Procedure", "Condition", "Patient">>

IsSearch(request) == request.method = "GET"

\* C17: teardown --all runs its search-and-delete passes one resource type
\* at a time in the order Observation, Procedure, Condition, Patient. The
\* searches are sent in that order, each after the passes before it have
\* returned; every DELETE is for the type searched last; and no DELETE for
\* a Patient is sent before the passes of the three dependent types have
\* returned.
C17_PatientDeletedLast ==
  /\ LET searches == SelectSeq(requests, IsSearch) IN
       \A i \in 1..Len(searches) :
         /\ i <= Len(DependentsFirst)
         /\ searches[i].resourceType = DependentsFirst[i]
         /\ searches[i].returned = {DependentsFirst[j] : j \in 1..(i - 1)}
  /\ \A k \in 1..Len(requests) :
       requests[k].method = "DELETE" =>
         /\ \E g \in 1..(k - 1) :
              /\ requests[g].method = "GET"
              /\ requests[g].resourceType = requests[k].resourceType
              /\ \A h \in (g + 1)..(k - 1) : requests[h].method = "DELETE"
         /\ requests[k].resourceType = "Patient"
              => Dependents \subseteq requests[k].returned

\* a Patient DELETE went out as the eighth request, after a DELETE for each
\* dependent type, one of which the server refused
C17_Witness ==
  /\ Len(requests) = 8
  /\ requests[8].method = "DELETE"
  /\ requests[8].resourceType = "Patient"
  /\ \A t \in Dependents :
       \E k \in 1..7 : requests[k].method = "DELETE" /\ requests[k].resourceType = t
  /\ \E r \in server : r.resourceType \in Dependents

-----------------------------------------------------------------------------
(* Properties of the React App (SpecApp)                                   *)

\* C19: whenever loading is false and a cdsResult is displayed, the
\* displayed cdsResult and selectedPatient are those fetched for the
\* selected patient id.
C19_DisplayedForSelection ==
  (~loading /\ cdsResult # Null) =>
    /\ cdsResult = ResultFor(selectedPatientId)
    /\ selectedPatient = PatientOf(selectedPatientId)

\* C20: loading is true in every state in which an evaluateCds call has not
\* ended.
C20_LoadingWhilePending ==
  evaluations # <<>> => loading

-----------------------------------------------------------------------------
(* Properties of test-runner.js (SpecRunner)                               *)

\* how many of the runs so far ended in one of the given ways
Ended_as(ways) == Cardinality({i \in 1..Len(outcomes) : outcomes[i] \in ways})

\* C21: the main loop accounts for every case exactly once. After each run
\* exactly one of passed and failed has grown by one: passed for a run that
\* returned passed, failed for one that returned a failure or threw. A run
\* that throws does not end the loop, so at the exit at the end of the
\* script every case has been run, passed + failed is the number of cases,
\* and the exit code is 1 exactly when failed > 0, and 0 otherwise.
C21_EveryCaseCountedOnce ==
  /\ runnerPc \in {"loop", "awaitEvaluate", "exited"} =>
       /\ Len(outcomes) = caseIndex - 1
       /\ Len(outcomes) <= Len(casesToRun)
       /\ passed = Ended_as({"passed"})
       /\ failed = Ended_as({"failed", "threw"})
       /\ passed + failed = Len(outcomes)
  /\ runnerPc = "exited" =>
       /\ Len(outcomes) = Len(casesToRun)
       /\ passed + failed = Len(casesToRun)
       /\ exitCode \in {0, 1}
       /\ exitCode = 1 <=> failed > 0

\* three cases: the first threw, the second passed, the third failed, and
\* the script exited with code 1
C21_Witness ==
  /\ runnerPc = "exited"
  /\ Len(casesToRun) = 3
  /\ outcomes = <<"threw", "passed", "failed">>
  /\ passed = 1
  /\ failed = 2
  /\ exitCode = 1

====
